---- MODULE Spec2Model ----
(***************************************************************************)
(* generate-diagram.py: the Diagram Builder.  The script is one pass of     *)
(* `with Diagram`, nested `with Cluster` blocks, node constructors and      *)
(* `a >> Edge(...) >> b` statements, followed by the render that leaving    *)
(* the `with Diagram` block performs.                                       *)
(*                                                                         *)
(* Label strings are kept as in the source, with the non-ASCII characters   *)
(* written in ASCII: the circled digits as (1)..(6), the middle dot as ".", *)
(* the multiplication sign as "x", the arrow as "->", the dash as "--".     *)
(***************************************************************************)
EXTENDS Integers, Sequences, FiniteSets, TLC

VARIABLES
    run,        \* number of the current execution of the script
    input,      \* the label string this execution replaces (site 0: none)
    pc,         \* index in Script of the next statement
    diagram,    \* the current diagram context (getdiagram)
    cluster,    \* the innermost open cluster (getcluster), Root when none
    clusters,   \* clusters constructed so far
    attached,   \* clusters whose subgraph was handed to the parent on exit
    nodes,      \* ids of the nodes constructed so far
    icon,       \* node id -> icon class
    text,       \* node id -> label
    parent,     \* containment: set of <<child, container>>
    edges,      \* sequence of the edges connected so far
    rendered,   \* number of render calls of this execution
    files,      \* paths present on the file system
    history     \* structural graph of each finished execution

vars == <<run, input, pc, diagram, cluster, clusters, attached, nodes, icon,
          text, parent, edges, rendered, files, history>>

graph == <<clusters, attached, nodes, icon, text, parent, edges>>

\* number of executions of the script that are followed
MaxRuns == 2

\* the diagram itself is the container of whatever is in no cluster
Root == "Diagram"

NoDiagram == "None"

filename == "docs/architecture"

outformat == "png"

\* ------------------------------------------------------------ statements

DiagramStmt ==
    [op |-> "Diagram", id |-> Root, icon |-> "", label |-> "",
     tails |-> <<>>, head |-> "", style |-> "", color |-> ""]

EndDiagram ==
    [op |-> "EndDiagram", id |-> Root, icon |-> "", label |-> "",
     tails |-> <<>>, head |-> "", style |-> "", color |-> ""]

ClusterStmt(id, label) ==
    [op |-> "Cluster", id |-> id, icon |-> "", label |-> label,
     tails |-> <<>>, head |-> "", style |-> "", color |-> ""]

EndCluster(id) ==
    [op |-> "EndCluster", id |-> id, icon |-> "", label |-> "",
     tails |-> <<>>, head |-> "", style |-> "", color |-> ""]

NodeStmt(id, cls, label) ==
    [op |-> "Node", id |-> id, icon |-> cls, label |-> label,
     tails |-> <<>>, head |-> "", style |-> "", color |-> ""]

EdgeStmt(tails, head, label, style, color) ==
    [op |-> "Edge", id |-> "", icon |-> "", label |-> label,
     tails |-> tails, head |-> head, style |-> style, color |-> color]

\* ------------------------------------------------------------ the script

TeamBlock ==
    << ClusterStmt("Team", "Team -- Any Device . Any Location"),
       NodeStmt("claude_code", "User", "Claude Code\nqwen3-coder:32b"),
       NodeStmt("api_client", "User", "OpenAI-compatible\nClient"),
       EndCluster("Team") >>

\* KongBlock with a second gateway node in the provider account
KongBlockTwoGateways ==
    << ClusterStmt("Kong",
           "KONG INC -- Managed AWS Account\n(You never operate this infrastructure)"),
       NodeStmt("kong_gw", "Kong",
           "Kong Cloud AI Gateway\nai-proxy  .  key-auth\nai-rate-limiting  .  prometheus"),
       NodeStmt("provider_gw", "Kong", "Provider Gateway"),
       EndCluster("Kong") >>

KongBlock ==
    << ClusterStmt("Kong",
           "KONG INC -- Managed AWS Account\n(You never operate this infrastructure)"),
       NodeStmt("kong_gw", "Kong",
           "Kong Cloud AI Gateway\nai-proxy  .  key-auth\nai-rate-limiting  .  prometheus"),
       EndCluster("Kong") >>

IstioBlock ==
    << ClusterStmt("IstioIngress", "istio-ingress namespace"),
       NodeStmt("nlb", "NLB", "Internal NLB\n(not internet-facing)"),
       NodeStmt("istio_gw", "Istio", "Istio Gateway\nGateway API  .  mTLS"),
       EndCluster("IstioIngress") >>

\* EksBlock with the EKS block closed before the ollama namespace is opened
EksBlockFlatNamespace ==
    << ClusterStmt("EKS", "EKS Cluster  .  Kubernetes 1.31"),
       NodeStmt("sys_nodes", "EC2", "System Nodes\n2x t3.medium"),
       NodeStmt("gpu_node", "EC2",
           "GPU Node\ng5.12xlarge\n4x NVIDIA A10G  .  96 GB VRAM"),
       EndCluster("EKS"),
       ClusterStmt("Ollama", "ollama namespace\n(NetworkPolicy: istio-ingress only)"),
       NodeStmt("svc", "SVC", "ClusterIP  :11434\nnever internet-exposed"),
       NodeStmt("pod", "Pod", "Ollama Pod\n4x GPU  .  96 GB VRAM\nqwen3-coder:32b"),
       EndCluster("Ollama") >>

EksBlock ==
    << ClusterStmt("EKS", "EKS Cluster  .  Kubernetes 1.31"),
       NodeStmt("sys_nodes", "EC2", "System Nodes\n2x t3.medium"),
       NodeStmt("gpu_node", "EC2",
           "GPU Node\ng5.12xlarge\n4x NVIDIA A10G  .  96 GB VRAM"),
       ClusterStmt("Ollama", "ollama namespace\n(NetworkPolicy: istio-ingress only)"),
       NodeStmt("svc", "SVC", "ClusterIP  :11434\nnever internet-exposed"),
       NodeStmt("pod", "Pod", "Ollama Pod\n4x GPU  .  96 GB VRAM\nqwen3-coder:32b"),
       EndCluster("Ollama"),
       EndCluster("EKS") >>

VolStmt ==
    NodeStmt("vol", "EBS",
        "EBS gp3  .  200 GB\nAZ-local AWS block storage\nAttached to EC2 via Nitro NVMe\nRetain policy  .  4000 IOPS")

\* VpcBlock with the volume indented one level deeper, inside the EKS block
VpcBlockVolInEks ==
    << ClusterStmt("VPC", "VPC  10.0.0.0/16  .  Private Subnets  .  NAT Gateway") >>
    \o IstioBlock \o SubSeq(EksBlock, 1, Len(EksBlock) - 1)
    \o << VolStmt, EndCluster("EKS"), EndCluster("VPC") >>

VpcBlock ==
    << ClusterStmt("VPC", "VPC  10.0.0.0/16  .  Private Subnets  .  NAT Gateway") >>
    \o IstioBlock \o EksBlock \o << VolStmt, EndCluster("VPC") >>

YourAccountBlock ==
    << ClusterStmt("YourAccount",
           "YOUR AWS ACCOUNT -- us-west-2\n(You own . You control . Your prompts never leave)"),
       NodeStmt("tgw", "TransitGateway",
           "Transit Gateway\nRAM Share -> Kong account\nPrivate bridge  .  never internet") >>
    \o VpcBlock \o << EndCluster("YourAccount") >>

\* TrafficEdges with step 6 written the wrong way round, pod >> svc
TrafficEdgesPodToSvc ==
    << EdgeStmt(<<"claude_code", "api_client">>, "kong_gw", "(1) HTTPS", "", ""),
       EdgeStmt(<<"kong_gw">>, "tgw",
           "(2) Private peering\nKong CIDR: 192.168.0.0/16\nnever over internet", "", ""),
       EdgeStmt(<<"tgw">>, "nlb", "(3) VPC attachment\n10.0.0.0/16", "", ""),
       EdgeStmt(<<"nlb">>, "istio_gw", "(4)", "", ""),
       EdgeStmt(<<"istio_gw">>, "svc", "(5) HTTPRoute -> :11434", "", ""),
       EdgeStmt(<<"pod">>, "svc", "(6)", "", "") >>

TrafficEdges ==
    << EdgeStmt(<<"claude_code", "api_client">>, "kong_gw", "(1) HTTPS", "", ""),
       EdgeStmt(<<"kong_gw">>, "tgw",
           "(2) Private peering\nKong CIDR: 192.168.0.0/16\nnever over internet", "", ""),
       EdgeStmt(<<"tgw">>, "nlb", "(3) VPC attachment\n10.0.0.0/16", "", ""),
       EdgeStmt(<<"nlb">>, "istio_gw", "(4)", "", ""),
       EdgeStmt(<<"istio_gw">>, "svc", "(5) HTTPRoute -> :11434", "", ""),
       EdgeStmt(<<"svc">>, "pod", "(6)", "", "") >>

\* StorageEdges with the style and color of the PVC mount edge left out
StorageEdgesSolidMount ==
    << EdgeStmt(<<"gpu_node">>, "vol",
           "NVMe block device\n(Nitro hypervisor attach)", "dashed", "#6b7280"),
       EdgeStmt(<<"pod">>, "vol", "PVC mount\n/root/.ollama", "", "") >>

StorageEdges ==
    << EdgeStmt(<<"gpu_node">>, "vol",
           "NVMe block device\n(Nitro hypervisor attach)", "dashed", "#6b7280"),
       EdgeStmt(<<"pod">>, "vol", "PVC mount\n/root/.ollama", "dashed", "#6b7280") >>

\* Script with the storage edges dedented out of the with Diagram block
ScriptStorageEdgesAfterExit ==
    << DiagramStmt >> \o TeamBlock \o KongBlock \o YourAccountBlock
    \o TrafficEdges \o << EndDiagram >> \o StorageEdges

Script ==
    << DiagramStmt >> \o TeamBlock \o KongBlock \o YourAccountBlock
    \o TrafficEdges \o StorageEdges \o << EndDiagram >>

\* ------------------------------------------------------------ inputs

\* the places of the script that carry a node's or an edge's label string
LabelSites == { i \in DOMAIN Script : Script[i].op \in {"Node", "Edge"} }

AltText == "edited label"

Inputs == { [site |-> 0, text |-> ""] }
          \cup { [site |-> i, text |-> AltText] : i \in LabelSites }

\* LabelOf with the replaced string also taken by the statement after it
LabelOfLeaking(i) ==
    IF input.site # 0 /\ input.site \in {i, i - 1} THEN input.text
    ELSE Script[i].label

\* the label string statement i is run with
LabelOf(i) == IF input.site = i THEN input.text ELSE Script[i].label

Stmt == Script[pc]

Running == pc \in DOMAIN Script

\* ------------------------------------------------------------ actions

Init ==
    /\ run = 1
    /\ input \in Inputs
    /\ pc = 1
    /\ diagram = NoDiagram
    /\ cluster = Root
    /\ clusters = {}
    /\ attached = {}
    /\ nodes = {}
    /\ icon = << >>
    /\ text = << >>
    /\ parent = {}
    /\ edges = << >>
    /\ rendered = 0
    /\ files = {}
    /\ history = << >>

\* EnterDiagram carrying the graph of the previous output over
EnterDiagramKeepGraph ==
    /\ pc \in DOMAIN Script /\ Script[pc].op = "Diagram"
    /\ diagram' = Script[pc].id
    /\ pc' = pc + 1
    /\ UNCHANGED <<run, input, cluster, clusters, attached, nodes, icon, text,
                   parent, edges, rendered, files, history>>

\* with Diagram(...): the constructor makes an empty graph and __enter__
\* makes the diagram the current one
EnterDiagram ==
    /\ Running /\ Stmt.op = "Diagram"
    /\ diagram' = Stmt.id
    /\ clusters' = {}
    /\ attached' = {}
    /\ nodes' = {}
    /\ icon' = << >>
    /\ text' = << >>
    /\ parent' = {}
    /\ edges' = << >>
    /\ pc' = pc + 1
    /\ UNCHANGED <<run, input, cluster, rendered, files, history>>

\* with Cluster(...): the cluster records the current cluster as its parent
\* and becomes the current cluster
EnterCluster ==
    /\ Running /\ Stmt.op = "Cluster"
    /\ clusters' = clusters \cup {Stmt.id}
    /\ parent' = parent \cup {<<Stmt.id, cluster>>}
    /\ cluster' = Stmt.id
    /\ pc' = pc + 1
    /\ UNCHANGED <<run, input, diagram, attached, nodes, icon, text, edges,
                   rendered, files, history>>

\* the container recorded for x when it was constructed
ParentOf(x) == CHOOSE p \in clusters \cup {Root} : <<x, p>> \in parent

\* end of a with Cluster block: the subgraph goes to the parent, which
\* becomes the current cluster again
ExitCluster ==
    /\ Running /\ Stmt.op = "EndCluster"
    /\ attached' = attached \cup {cluster}
    /\ cluster' = ParentOf(cluster)
    /\ pc' = pc + 1
    /\ UNCHANGED <<run, input, diagram, clusters, nodes, icon, text, parent,
                   edges, rendered, files, history>>

\* NodeContainers without the else: the node goes to the diagram as well
NodeContainersBoth == {cluster, Root}

\* the containers a new node is put in: the current cluster, else the diagram
NodeContainers == IF cluster # Root THEN {cluster} ELSE {Root}

\* x = Icon("label"): the node joins the current cluster
NewNode ==
    /\ Running /\ Stmt.op = "Node"
    /\ nodes' = nodes \cup {Stmt.id}
    /\ icon' = (Stmt.id :> Stmt.icon) @@ icon
    /\ text' = (Stmt.id :> LabelOf(pc)) @@ text
    /\ parent' = parent \cup { <<Stmt.id, c>> : c \in NodeContainers }
    /\ pc' = pc + 1
    /\ UNCHANGED <<run, input, diagram, cluster, clusters, attached, edges,
                   rendered, files, history>>

\* EdgesOf connecting only the first node of a list of tails
EdgesOfFirstTail(i) ==
    [ k \in 1..1 |->
        [tail |-> Script[i].tails[k], head |-> Script[i].head,
         label |-> IF input.site = i THEN input.text ELSE Script[i].label,
         style |-> Script[i].style,
         color |-> Script[i].color, dir |-> "forward"] ]

\* the edges one statement tails >> Edge(...) >> head connects, in order
EdgesOf(i) ==
    [ k \in 1..Len(Script[i].tails) |->
        [tail |-> Script[i].tails[k], head |-> Script[i].head,
         label |-> LabelOf(i), style |-> Script[i].style,
         color |-> Script[i].color, dir |-> "forward"] ]

\* a >> Edge(...) >> b, and [a, b] >> Edge(...) >> c
Connect ==
    /\ Running /\ Stmt.op = "Edge"
    /\ edges' = edges \o EdgesOf(pc)
    /\ pc' = pc + 1
    /\ UNCHANGED <<run, input, diagram, cluster, clusters, attached, nodes,
                   icon, text, parent, rendered, files, history>>

OutputPath == filename \o "." \o outformat

\* the structural graph a finished execution leaves in its output
Snapshot ==
    [input |-> input, clusters |-> clusters, nodes |-> nodes, icon |-> icon,
     text |-> text, parent |-> parent, edges |-> edges]

\* end of the with Diagram block: render, remove the dot source, and clear
\* the current diagram
ExitDiagram ==
    /\ Running /\ Stmt.op = "EndDiagram"
    /\ rendered' = rendered + 1
    /\ files' = (files \cup {filename, OutputPath}) \ {filename}
    /\ diagram' = NoDiagram
    /\ history' = Append(history, Snapshot)
    /\ pc' = pc + 1
    /\ UNCHANGED <<run, input, cluster, clusters, attached, nodes, icon, text,
                   parent, edges>>

\* the script is run again, as a new process: no diagram and no cluster is
\* current and nothing is rendered yet; the graph variables keep showing the
\* graph of the last output until Diagram(...) makes the new one
Rerun ==
    /\ ~Running
    /\ run < MaxRuns
    /\ run' = run + 1
    /\ input' \in Inputs
    /\ pc' = 1
    /\ diagram' = NoDiagram
    /\ cluster' = Root
    /\ rendered' = 0
    /\ UNCHANGED <<clusters, attached, nodes, icon, text, parent, edges,
                   files, history>>

Next ==
    \/ EnterDiagram
    \/ EnterCluster
    \/ NewNode
    \/ ExitCluster
    \/ Connect
    \/ ExitDiagram
    \/ Rerun

Spec == Init /\ [][Next]_vars

Done == ~Running

\* ------------------------------------------------------------ helpers

Max(S) == CHOOSE m \in S : \A k \in S : k <= m

\* the nodes constructed from icon class cls
NodesOfIcon(cls) == { n \in nodes : icon[n] = cls }

\* the containers recorded for x
ParentsOf(x) == { pr[2] : pr \in { q \in parent : q[1] = x } }

\* the clusters directly inside container c
ChildClusters(c) == { d \in clusters : <<d, c>> \in parent }

\* the regions directly under the diagram
TopLevel == ChildClusters(Root)

\* number of cluster levels nested inside cluster c
RECURSIVE NestDepth(_)
NestDepth(c) ==
    IF ChildClusters(c) = {} THEN 0
    ELSE 1 + Max({ NestDepth(d) : d \in ChildClusters(c) })

\* the containers around x, k levels up at most
RECURSIVE Around(_, _)
Around(S, k) ==
    IF k = 0 \/ S = {} THEN {}
    ELSE LET up == UNION { ParentsOf(x) : x \in S }
         IN  up \cup Around(up, k - 1)

Ancestors(x) == Around({x}, Cardinality(clusters) + 1)

EdgePairs == { <<edges[k].tail, edges[k].head>> : k \in DOMAIN edges }

Successors(S) == { e[2] : e \in { f \in EdgePairs : f[1] \in S } }

\* the nodes reached from S along at least one and at most k edges
RECURSIVE Along(_, _)
Along(S, k) ==
    IF k = 0 THEN {}
    ELSE Successors(S) \cup Along(Successors(S), k - 1)

Reach(n) == Along({n}, Len(edges))

EdgesInto(n) == { k \in DOMAIN edges : edges[k].head = n }

EdgesOutOf(n) == { k \in DOMAIN edges : edges[k].tail = n }

AllDeclared ==
    /\ Cardinality(clusters) = 7
    /\ attached = clusters
    /\ Cardinality(nodes) = 11
    /\ Len(edges) = 9

\* ------------------------------------------------------------ claims

\* C1 as stated: after the construction pass the graph has exactly 13 leaf
\* nodes: 2 actors, 2 compute instances, 1 storage node, 1 service, 1 pod,
\* 1 gateway, 1 load balancer, 1 service-mesh gateway, 1 transit gateway and
\* 1 provider gateway.
C1_ThirteenNodes ==
    rendered = 1 =>
        /\ Cardinality(nodes) = 13
        /\ Cardinality(NodesOfIcon("User")) = 2
        /\ Cardinality(NodesOfIcon("EC2")) = 2
        /\ Cardinality(NodesOfIcon("EBS")) = 1
        /\ Cardinality(NodesOfIcon("SVC")) = 1
        /\ Cardinality(NodesOfIcon("Pod")) = 1
        /\ Cardinality(NodesOfIcon("NLB")) = 1
        /\ Cardinality(NodesOfIcon("Istio")) = 1
        /\ Cardinality(NodesOfIcon("TransitGateway")) = 1
        /\ Cardinality(NodesOfIcon("Kong")) = 2

\* C1 amended: after the construction pass the graph has exactly 11 leaf
\* nodes: 2 actors, 2 compute instances, 1 storage node, 1 service, 1 pod,
\* 1 load balancer, 1 service-mesh gateway, 1 transit gateway and 1 gateway,
\* the Kong gateway of the provider account (there is no second gateway).
C1_ElevenNodes ==
    rendered = 1 =>
        /\ Cardinality(nodes) = 11
        /\ NodesOfIcon("User") = {"claude_code", "api_client"}
        /\ NodesOfIcon("EC2") = {"sys_nodes", "gpu_node"}
        /\ NodesOfIcon("EBS") = {"vol"}
        /\ NodesOfIcon("SVC") = {"svc"}
        /\ NodesOfIcon("Pod") = {"pod"}
        /\ NodesOfIcon("NLB") = {"nlb"}
        /\ NodesOfIcon("Istio") = {"istio_gw"}
        /\ NodesOfIcon("TransitGateway") = {"tgw"}
        /\ NodesOfIcon("Kong") = {"kong_gw"}

C1_Witness == rendered = 1 /\ "kong_gw" \in nodes /\ "vol" \in nodes

StorageAttach(k) == edges[k].head = "vol"

\* C2 as stated: after all edge declarations the edge count is exactly 8, the
\* two edges into the storage volume are dashed and gray, and every other
\* edge has no dashed style.
C2_EightEdges ==
    rendered = 1 =>
        /\ Len(edges) = 8
        /\ \A k \in DOMAIN edges :
             IF StorageAttach(k)
             THEN edges[k].style = "dashed" /\ edges[k].color = "#6b7280"
             ELSE edges[k].style # "dashed"

\* C2 amended: after all edge declarations the edge count is exactly 9 (the
\* 8 edge statements, the first of which connects each of the two actors to
\* the gateway), exactly two edges go into the storage volume (from the GPU
\* node and from the pod) and they are dashed and gray, and every other edge
\* has no dashed style.
C2_NineEdges ==
    rendered = 1 =>
        /\ Len(edges) = 9
        /\ { edges[k].tail : k \in EdgesInto("vol") } = {"gpu_node", "pod"}
        /\ Cardinality(EdgesInto("vol")) = 2
        /\ \A k \in DOMAIN edges :
             IF StorageAttach(k)
             THEN edges[k].style = "dashed" /\ edges[k].color = "#6b7280"
             ELSE edges[k].style # "dashed" /\ edges[k].style = ""

C2_Witness ==
    /\ rendered = 1
    /\ \E k \in DOMAIN edges : StorageAttach(k) /\ edges[k].style = "dashed"
    /\ \E k \in DOMAIN edges : ~StorageAttach(k)

NestedChain ==
    /\ <<"VPC", "YourAccount">> \in parent
    /\ <<"EKS", "VPC">> \in parent
    /\ <<"Ollama", "EKS">> \in parent
    /\ NestDepth("YourAccount") = 3

\* C3 as stated: the cluster tree has 5 top-level regions directly under the
\* diagram root, and the clusters nested inside "Your account" are exactly 3
\* levels deep (virtual network, orchestrator cluster, application namespace).
C3_FiveRegions ==
    rendered = 1 => Cardinality(TopLevel) = 5 /\ NestedChain

\* C3 amended: the cluster tree has 3 top-level regions directly under the
\* diagram root (Team, the Kong account, Your account; 7 clusters in all), and
\* the clusters nested inside "Your account" are exactly 3 levels deep
\* (virtual network, orchestrator cluster, application namespace).
C3_ThreeRegions ==
    rendered = 1 =>
        /\ TopLevel = {"Team", "Kong", "YourAccount"}
        /\ Cardinality(clusters) = 7
        /\ NestedChain

C3_Witness == rendered = 1 /\ "Ollama" \in attached /\ "YourAccount" \in attached

\* C4: the storage volume is constructed while the VPC cluster is the
\* innermost open cluster, after the EKS cluster and its namespace were
\* closed; its parent is the VPC cluster, it is a sibling of the EKS cluster
\* and it is inside neither the EKS cluster nor the namespace.
C4_VolumeBesideEks ==
    /\ (Running /\ Stmt.op = "Node" /\ Stmt.id = "vol") =>
          /\ cluster = "VPC"
          /\ {"EKS", "Ollama"} \subseteq attached
    /\ "vol" \in nodes =>
          /\ ParentsOf("vol") = {"VPC"}
          /\ ParentsOf("EKS") = ParentsOf("vol")
          /\ "EKS" \notin Ancestors("vol")
          /\ "Ollama" \notin Ancestors("vol")
          /\ {"EKS", "Ollama"} \subseteq attached

C4_Witness == "vol" \in nodes /\ cluster = "VPC" /\ rendered = 0

Containers == clusters \cup {Root}

\* C5: at every point of construction and in the final graph containment is
\* a tree: every cluster and every node has exactly one parent, a cluster or
\* the diagram root, from which the root is reached; no node has children;
\* every edge joins two leaf nodes, which may lie in different clusters.
C5_ContainmentTree ==
    /\ \A x \in clusters \cup nodes :
         /\ Cardinality(ParentsOf(x)) = 1
         /\ ParentsOf(x) \subseteq Containers
    /\ \A x \in clusters :
         LET anc == Ancestors(x)
         IN  Root \in anc /\ x \notin anc
    /\ \A pr \in parent : pr[1] \in clusters \cup nodes /\ pr[2] \notin nodes
    /\ clusters \cap nodes = {}
    /\ \A k \in DOMAIN edges :
         /\ edges[k].tail \in nodes /\ edges[k].head \in nodes
         /\ edges[k].tail \notin clusters /\ edges[k].head \notin clusters

CrossCluster(t, h) ==
    \E k \in DOMAIN edges :
        /\ edges[k].tail = t /\ edges[k].head = h
        /\ ParentsOf(t) \cap ParentsOf(h) = {}

C5_Witness ==
    /\ CrossCluster("kong_gw", "tgw")
    /\ CrossCluster("tgw", "nlb")
    /\ rendered = 1

\* C6: the declared edges are exactly the actor -> gateway edge of each of
\* the two actors, both with the same label, then gateway -> transit gateway
\* -> load balancer -> service-mesh gateway -> service -> pod, GPU node ->
\* volume and pod -> volume, each in that direction, and no other edge.
C6_ExactEdges ==
    rendered = 1 =>
        /\ [ k \in DOMAIN edges |-> <<edges[k].tail, edges[k].head>> ] =
             << <<"claude_code", "kong_gw">>, <<"api_client", "kong_gw">>,
                <<"kong_gw", "tgw">>, <<"tgw", "nlb">>, <<"nlb", "istio_gw">>,
                <<"istio_gw", "svc">>, <<"svc", "pod">>,
                <<"gpu_node", "vol">>, <<"pod", "vol">> >>
        /\ \A k \in DOMAIN edges : edges[k].dir = "forward"
        /\ edges[1].label = edges[2].label
        /\ input.site = 0 => edges[1].label = "(1) HTTPS"

C6_Witness ==
    /\ rendered = 1
    /\ \E k \in DOMAIN edges : edges[k].tail = "api_client"
    /\ \E k \in DOMAIN edges : edges[k].tail = "claude_code"

\* C7: a run renders exactly once, to the single file docs/architecture.png,
\* and only after every cluster, node and edge is declared; after the render
\* no node, cluster or edge is added, removed or changed.
C7_RenderOnceAtEnd ==
    /\ [](/\ rendered <= 1
          /\ rendered = 1 => ~Running /\ files = {"docs/architecture.png"}
          /\ (rendered = 0 /\ run = 1) => files = {})
    /\ [][ /\ (rendered' # rendered /\ run' = run) =>
                AllDeclared /\ rendered' = 1 /\ graph' = graph
           /\ (rendered = 1 /\ run' = run) => graph' = graph /\ files' = files
         ]_vars

C7_Witness == rendered = 1 /\ files = {"docs/architecture.png"} /\ AllDeclared

LabelUnder(inp, i) == IF inp.site = i THEN inp.text ELSE Script[i].label

\* the label strings in which two inputs differ
DiffSites(a, b) == { i \in LabelSites : LabelUnder(a, i) # LabelUnder(b, i) }

SameTopology(g, h) ==
    /\ g.clusters = h.clusters
    /\ g.nodes = h.nodes
    /\ g.parent = h.parent
    /\ Len(g.edges) = Len(h.edges)
    /\ \A k \in DOMAIN g.edges :
         /\ g.edges[k].tail = h.edges[k].tail
         /\ g.edges[k].head = h.edges[k].head
         /\ g.edges[k].dir = h.edges[k].dir

\* the nodes and the edges (by position) whose text differs in g and h
TextDiff(g, h) ==
    { <<"node", n>> : n \in { m \in g.nodes \cap h.nodes : g.text[m] # h.text[m] } }
    \cup { <<"edge", k>> :
             k \in { m \in DOMAIN g.edges \cap DOMAIN h.edges :
                       g.edges[m].label # h.edges[m].label } }

\* the nodes and the edges of g that statement i declares
DeclaredBy(g, i) ==
    IF Script[i].op = "Node" THEN { <<"node", Script[i].id>> }
    ELSE { <<"edge", k>> :
             k \in { m \in DOMAIN g.edges :
                       /\ g.edges[m].head = Script[i].head
                       /\ \E t \in DOMAIN Script[i].tails :
                            Script[i].tails[t] = g.edges[m].tail } }

\* C9 as stated: two runs that differ only in the label string of one node
\* or one edge have the same topology and differ only in the text of that
\* one node or edge.
C9_OneTextDiffers ==
    \A i, j \in DOMAIN history :
        Cardinality(DiffSites(history[i].input, history[j].input)) = 1 =>
            /\ SameTopology(history[i], history[j])
            /\ Cardinality(TextDiff(history[i], history[j])) = 1

\* C9 amended: two runs that differ only in one label string of the script
\* have the same topology and differ only in the text of the node, or of the
\* edges, that the statement carrying that string declares: one node or one
\* edge, except for the actor statement, whose one label is the text of both
\* actor -> gateway edges.
C9_LabelOnlyChangesText ==
    \A i, j \in DOMAIN history :
        Cardinality(DiffSites(history[i].input, history[j].input)) = 1 =>
            /\ SameTopology(history[i], history[j])
            /\ \A s \in DiffSites(history[i].input, history[j].input) :
                 /\ TextDiff(history[i], history[j]) = DeclaredBy(history[i], s)
                 /\ Cardinality(DeclaredBy(history[i], s)) =
                      IF Script[s].op = "Edge" THEN Len(Script[s].tails) ELSE 1
            /\ history[i].icon = history[j].icon
            /\ \A k \in DOMAIN history[i].edges :
                 /\ history[i].edges[k].style = history[j].edges[k].style
                 /\ history[i].edges[k].color = history[j].edges[k].color

C9_Witness ==
    /\ Len(history) >= 2
    /\ Cardinality(DiffSites(history[1].input, history[2].input)) = 1
    /\ Cardinality(TextDiff(history[1], history[2])) = 2

\* C10: the directed edges of the final graph are acyclic; the pod is reached
\* from each actor through gateway, transit gateway, load balancer,
\* service-mesh gateway and service; the storage volume has only incoming
\* edges; the system-nodes compute node is an end point of no edge.
C10_AcyclicFlow ==
    rendered = 1 =>
        /\ \A n \in nodes : n \notin Reach(n)
        /\ \A a \in {"claude_code", "api_client"} :
             /\ {"kong_gw", "tgw", "nlb", "istio_gw", "svc", "pod"} \subseteq Reach(a)
             /\ <<a, "kong_gw">> \in EdgePairs
        /\ { <<"kong_gw", "tgw">>, <<"tgw", "nlb">>, <<"nlb", "istio_gw">>,
             <<"istio_gw", "svc">>, <<"svc", "pod">> } \subseteq EdgePairs
        /\ EdgesOutOf("vol") = {} /\ EdgesInto("vol") # {}
        /\ EdgesOutOf("sys_nodes") = {} /\ EdgesInto("sys_nodes") = {}

C10_Witness ==
    /\ rendered = 1
    /\ "pod" \in Reach("claude_code")
    /\ "sys_nodes" \in nodes
    /\ Len(edges) = 9

====
